---- MODULE Spec2Model ----
(***************************************************************************)
(* toons-flag-chase (src/src/main.cpp): three toons (RoadRunner, Coyote,    *)
(* YosemiteSam) race on a grid toward a flag, one worker thread per toon,   *)
(* the board protected by board.mtx, a supervisor (main) waiting for the    *)
(* end of the game.                                                         *)
(*                                                                          *)
(* The board is scaled down (rows x cols = 5 x 6 instead of 18 x 36) and    *)
(* the millisecond timings are counted in ticks of an abstract steady      *)
(* clock.                                                                   *)
(*                                                                          *)
(* A worker's loop is cut where another thread's step in between can change *)
(* what the worker does next: before the loop test, before the freeze gate, *)
(* before each acquisition of board.mtx that guards writes, before each     *)
(* such critical section, inside it where the thread is in print_board or   *)
(* in log_event (board.render_mtx), and before the load of sam_on_cd.       *)
(* Three pieces of the loop are folded into the step that follows or        *)
(* precedes them, which loses no behaviour:                                 *)
(*  - the proposal section (main.cpp:198-208) takes board.mtx, reads only   *)
(*    the worker's own position, which no other thread writes, and releases *)
(*    the mutex with no call in between: its draws are made in MoveCS and   *)
(*    its wait for the mutex is the wait of the move section;               *)
(*  - the loads of gameOver at main.cpp:250 and 273 are made with the       *)
(*    unlock of the move section: gameOver never goes back to false, so a   *)
(*    later load either sees the same value or sees true and skips the      *)
(*    ability, which is what a failed roll does as well;                    *)
(*  - sam_on_cd.store(true) and the launch of the cooldown thread           *)
(*    (main.cpp:268) are made with the unlock of the shot section: no       *)
(*    other thread reads or writes the flag while no cooldown thread is     *)
(*    alive.                                                                *)
(***************************************************************************)
EXTENDS Integers, FiniteSets, Sequences, TLC

\* ---- Options (main.cpp:20-37), scaled: a 5 x 6 board, a step cap of 1, a
\* cooldown of 1 tick and a freeze of 3 ticks (--shoot-cooldown, --freeze-ms) ----
rows == 5
cols == 6
toons == 3
maxSteps == 1
sam_cooldown_ms == 1
sam_freeze_ms == 3

\* ---- bounds of the model ----
\* no tick of a worker's loop starts once totalSteps has reached MaxTotalSteps
\* (a tick under way is completed, so no thread is ever held up inside it); the
\* clock stops at MaxTime
MaxTotalSteps == 1
MaxTime == 2

\* ---- enum Toon (main.cpp:65) ----
ROADRUNNER == 0
COYOTE == 1
YOSEMITESAM == 2

Toons == 0 .. (toons - 1)
NoOne == -1

Pos(r, c) == [r |-> r, c |-> c]

\* ---- Board (main.cpp:42-63) ----
finishCol == cols - 1
flag == Pos(rows \div 2, cols - 2)
TimeMin == 0
inBounds(r, c) == r >= 0 /\ r < rows /\ c >= 0 /\ c < cols

\* pick_step's table (main.cpp:70): 4-neighbourhood + stay
dirs == << Pos(-1, 0), Pos(1, 0), Pos(0, -1), Pos(0, 1), Pos(0, 0) >>
pick_step == { dirs[i] : i \in 1 .. 5 }

VARIABLES
    cell,          \* the set of wall cells ('#'), fixed after setup
    toonPos,       \* board.toonPos
    frozen_until,  \* board.frozen_until
    steps,         \* board.steps
    mtx,           \* holder of board.mtx, or NoOne
    render_mtx,    \* holder of board.render_mtx, or NoOne
    gameOver, winner, totalSteps,   \* main's atomics
    gStop,         \* the SIGINT flag
    sam_on_cd,     \* YosemiteSam's cooldown flag
    cd_timers,     \* wake-up times of the live detached cooldown threads
    pc,            \* each worker's position in its loop
    pcMain,        \* the supervisor's position
    report,        \* what main printed at the end
    clock          \* steady_clock::now()

vars == << cell, toonPos, frozen_until, steps, mtx, render_mtx, gameOver, winner,
           totalSteps, gStop, sam_on_cd, cd_timers, pc,
           pcMain, report, clock >>

now == clock

Abs(x) == IF x < 0 THEN -x ELSE x
\* (a > b) - (a < b), as in `Pos dir{...}` (main.cpp:201-202, 277-278)
Sgn(a, b) == (IF a > b THEN 1 ELSE 0) - (IF a < b THEN 1 ELSE 0)
Add(p, d) == Pos(p.r + d.r, p.c + d.c)

\* ---- setup in main (main.cpp:146-166) ----
\* uniform_int_distribution rr(0, R-1), cc(0, C-3)
numWalls == (rows * cols) \div 30
PlaceCells == { Pos(r, c) : r \in 0 .. rows - 1, c \in 0 .. cols - 3 }

\* what the setup loops accept: numWalls draws of a wall cell (main.cpp:151-155)
\* and, for each toon in turn, a cell that is not the flag, not a wall and not
\* taken (main.cpp:162-165)
ValidSetup(walls, pos) ==
    /\ walls \subseteq PlaceCells
    /\ Cardinality(walls) <= numWalls
    /\ (numWalls > 0 => walls # {})
    /\ \A t \in Toons : pos[t] \in PlaceCells \ (walls \cup {flag})
    /\ \A a, b \in Toons : a # b => pos[a] # pos[b]

\* The setups explored: the wall and the toons are drawn next to the flag, so
\* that blocked moves, hops, shots at equal distance and wins all occur within
\* MaxTotalSteps moves.
Setups ==
    { [walls |-> { Pos(2, 2) },
       pos   |-> << Pos(2, 3), Pos(2, 1), Pos(1, 3) >>],
      [walls |-> { Pos(2, 2) },
       pos   |-> << Pos(3, 3), Pos(1, 3), Pos(2, 3) >>] }

Init ==
    /\ \E s \in Setups :
         /\ ValidSetup(s.walls, [t \in Toons |-> s.pos[t + 1]])
         /\ cell = s.walls
         /\ toonPos = [t \in Toons |-> s.pos[t + 1]]
    /\ frozen_until = [t \in Toons |-> TimeMin]
    /\ steps = [t \in Toons |-> 0]
    /\ mtx = NoOne
    /\ render_mtx = NoOne
    /\ gameOver = FALSE
    /\ winner = -1
    /\ totalSteps = 0
    /\ gStop = FALSE
    /\ sam_on_cd = FALSE
    /\ cd_timers = {}
    /\ pc = [t \in Toons |-> "top"]
    /\ pcMain = "wait"
    /\ report = "none"
    /\ clock = 0

\* ---- worker (main.cpp:182-293) ----
\* a loop test that does not load gStop
LoopTestIgnoresStop(t) ==
    /\ pc[t] = "top"
    /\ (totalSteps < MaxTotalSteps \/ gameOver \/ gStop)
    /\ pc' = [pc EXCEPT ![t] = IF gameOver THEN "done" ELSE "gate"]
    /\ UNCHANGED << cell, render_mtx, toonPos, frozen_until, steps, mtx, gameOver,
                    winner, totalSteps, gStop, sam_on_cd, cd_timers, pcMain,
                    report, clock >>

\* while(!gameOver.load() && !gStop.load())
LoopTest(t) ==
    /\ pc[t] = "top"
    /\ (totalSteps < MaxTotalSteps \/ gameOver \/ gStop)
    /\ pc' = [pc EXCEPT ![t] = IF gameOver \/ gStop THEN "done" ELSE "gate"]
    /\ UNCHANGED << cell, render_mtx, toonPos, frozen_until, steps, mtx, gameOver, winner,
                    totalSteps, gStop, sam_on_cd, cd_timers, pcMain, report,
                    clock >>

\* now() < board.frozen_until[t] (main.cpp:194).  The read is made without
\* board.mtx and can race with the shot's write at main.cpp:261: it yields the
\* value before or the value after the write, as the gate falls before or
\* after SamCS.
Frozen(t) == now < frozen_until[t]

\* if(frozen){ sleep_for(base_sleep); continue; }
FreezeGate(t) ==
    /\ pc[t] = "gate"
    /\ pc' = [pc EXCEPT ![t] = IF Frozen(t) THEN "top" ELSE "move"]
    /\ UNCHANGED << cell, render_mtx, toonPos, frozen_until, steps, mtx, gameOver, winner,
                    totalSteps, gStop, sam_on_cd, cd_timers, pcMain, report,
                    clock >>

\* a proposal whose coin 0 takes the row axis even when the row is aligned
StepChoiceRowAlways(cur, biased, coin, d) ==
    LET dir == Pos(Sgn(flag.r, cur.r), Sgn(flag.c, cur.c))
    IN  IF biased
        THEN IF coin = 0 THEN Pos(dir.r, 0)
             ELSE IF dir.c # 0 THEN Pos(0, dir.c)
             ELSE d
        ELSE d

\* The step proposal (main.cpp:197-208): biased = chance(trng) < 0.70,
\* coin = uniform_int_distribution(0,1), d = pick_step(trng).
StepChoice(cur, biased, coin, d) ==
    LET dir == Pos(Sgn(flag.r, cur.r), Sgn(flag.c, cur.c))
    IN  IF biased
        THEN IF coin = 0 /\ dir.r # 0 THEN Pos(dir.r, 0)
             ELSE IF dir.c # 0 THEN Pos(0, dir.c)
             ELSE d
        ELSE d

\* every step the proposal can yield at position cur
StepChoices(cur) ==
    { StepChoice(cur, biased, coin, d) :
        biased \in BOOLEAN, coin \in 0 .. 1, d \in pick_step }

\* chance(trng) < opt.coy_jump_chance is drawn by the Coyote only (main.cpp:226)
JumpRolls(t) == IF t = COYOTE THEN BOOLEAN ELSE {FALSE}

\* a lock that is taken without waiting for its holder
LockNoWait(t, from, to) ==
    /\ pc[t] = from
    /\ mtx' = t
    /\ pc' = [pc EXCEPT ![t] = to]
    /\ UNCHANGED << cell, render_mtx, toonPos, frozen_until, steps, gameOver, winner,
                    totalSteps, gStop, sam_on_cd, cd_timers, pcMain, report,
                    clock >>

\* a critical section entered without taking board.mtx
LockSkipped(t, from, to) ==
    /\ pc[t] = from
    /\ pc' = [pc EXCEPT ![t] = to]
    /\ UNCHANGED << cell, render_mtx, toonPos, frozen_until, steps, mtx, gameOver,
                    winner, totalSteps, gStop, sam_on_cd, cd_timers, pcMain,
                    report, clock >>

\* lock_guard<mutex> lk(board.mtx) at main.cpp:213, 254, 275
Lock(t, from, to) ==
    /\ pc[t] = from
    /\ mtx = NoOne
    /\ mtx' = t
    /\ pc' = [pc EXCEPT ![t] = to]
    /\ UNCHANGED << cell, render_mtx, toonPos, frozen_until, steps, gameOver, winner,
                    totalSteps, gStop, sam_on_cd, cd_timers, pcMain, report,
                    clock >>

\* a critical section that ends without releasing its mutex
UnlockNever(m, t) == m

\* the end of a lock_guard's scope: the mutex is released by the thread that
\* holds it (main.cpp:180, 247, 267, 287)
Unlock(m, t) == IF m = t THEN NoOne ELSE m

occ(t, r, c) == \E k \in Toons : k # t /\ toonPos[k].r = r /\ toonPos[k].c = c

\* try_move without its occupancy test
try_move_no_occ(t, dest) ==
    /\ inBounds(dest.r, dest.c)
    /\ dest.c < finishCol
    /\ dest \notin cell

\* try_move without any test of the destination
try_move_anywhere(t, dest) == TRUE

\* try_move without its wall test
try_move_no_wall(t, dest) ==
    /\ inBounds(dest.r, dest.c)
    /\ dest.c < finishCol
    /\ ~occ(t, dest.r, dest.c)

\* try_move refusing the cell the toon stands on
try_move_elsewhere(t, dest) ==
    /\ inBounds(dest.r, dest.c)
    /\ dest.c < finishCol
    /\ dest \notin cell
    /\ ~occ(t, dest.r, dest.c)
    /\ dest # toonPos[t]

\* the test of try_move (main.cpp:219) and of the burst (main.cpp:283)
try_move(t, dest) ==
    /\ inBounds(dest.r, dest.c)
    /\ dest.c < finishCol
    /\ dest \notin cell
    /\ ~occ(t, dest.r, dest.c)

\* a one-cell destination that always counts as blocked
blocked_always(t, nxt) == TRUE

\* main.cpp:223
blocked(t, nxt) ==
    \/ ~(inBounds(nxt.r, nxt.c) /\ nxt.c < finishCol)
    \/ nxt \in cell
    \/ occ(t, nxt.r, nxt.c)

\* a win check that accepts every position
WinCondAnywhere(p) == TRUE

\* main.cpp:243
WinCond(p) == (p.r = flag.r /\ p.c = flag.c) \/ p.c >= finishCol - 1

\* the win check without its `!gameOver.load()` guard
WinNowUnguarded(over, p) == WinCond(p)

\* if(!gameOver.load()) { ... winner.store(t); gameOver.store(true); }
\* (main.cpp:241-245)
WinNow(over, p) == ~over /\ WinCond(p)

\* a move counted twice
CommittedTwice(n) == n + 2

\* board.steps[t]++ and ++totalSteps of a committed move (main.cpp:220, 230, 237)
Committed(n) == n + 1

\* what follows the move section: YosemiteSam's `!gameOver.load()`
\* (main.cpp:250), the RoadRunner's `moved && !gameOver.load()` and burst
\* roll (main.cpp:273-274), or the pacing sleep (main.cpp:291)
AfterMove(t, didMove, over, roll) ==
    IF t = YOSEMITESAM THEN (IF ~over THEN "sam_cd" ELSE "top")
    ELSE IF t = ROADRUNNER THEN (IF didMove /\ ~over /\ roll THEN "burst" ELSE "top")
    ELSE "top"

\* uniform_real_distribution(0.0,1.0)(trng) < opt.rr_burst_chance
BurstRolls(t) == IF t = ROADRUNNER THEN BOOLEAN ELSE {FALSE}

\* the end of the move section: the win check (main.cpp:241-245) on the
\* toon's position p, the unlock (main.cpp:247) and what follows it
EndOfMove(t, p, didMove) ==
    \E burstRoll \in BurstRolls(t) :
        LET win == WinNow(gameOver, p)
        IN  /\ winner' = IF win THEN t ELSE winner
            /\ gameOver' = (gameOver \/ win)
            /\ pc' = [pc EXCEPT ![t] = AfterMove(t, didMove, gameOver \/ win, burstRoll)]
            /\ mtx' = Unlock(mtx, t)
            /\ render_mtx' = Unlock(render_mtx, t)

\* The move critical section (main.cpp:212-238): Coyote's jump or the normal
\* move.  A committed move is followed by print_board (main.cpp:231, 237),
\* made with board.mtx held; a failed attempt goes on to the win check.
MoveCS(t) ==
    /\ pc[t] = "move_cs"
    /\ \E step \in StepChoices(toonPos[t]), jumpRoll \in JumpRolls(t) :
         LET cur == toonPos[t]
             nxt == Add(cur, step)
             hop == Add(nxt, step)
             jumped == blocked(t, nxt) /\ t = COYOTE /\ jumpRoll /\ try_move(t, hop)
             normal == ~jumped /\ try_move(t, nxt)
             dest == IF jumped THEN hop ELSE IF normal THEN nxt ELSE cur
         IN  /\ toonPos' = [toonPos EXCEPT ![t] = dest]
             /\ steps' = [steps EXCEPT ![t] = IF jumped \/ normal THEN Committed(@) ELSE @]
             /\ totalSteps' = IF jumped \/ normal THEN Committed(totalSteps) ELSE totalSteps
             /\ IF jumped \/ normal
                THEN /\ pc' = [pc EXCEPT ![t] = IF jumped THEN "jump_print" ELSE "move_print"]
                     /\ UNCHANGED << mtx, render_mtx, winner, gameOver >>
                ELSE EndOfMove(t, cur, FALSE)
    /\ UNCHANGED << cell, frozen_until, gStop, sam_on_cd, cd_timers, pcMain,
                    report, clock >>

\* log_event (main.cpp:175-180), called at main.cpp:232 and 265 once
\* print_board has returned: lock_guard<mutex> lk(board.render_mtx), then the
\* message and the sleep of opt.delay_ms, both mutexes held
LogEvent(t, from, to) ==
    /\ pc[t] = from
    /\ render_mtx = NoOne
    /\ render_mtx' = t
    /\ pc' = [pc EXCEPT ![t] = to]
    /\ UNCHANGED << cell, toonPos, frozen_until, steps, mtx, gameOver, winner,
                    totalSteps, gStop, sam_on_cd, cd_timers, pcMain, report,
                    clock >>

\* the rest of the move section after the output of a committed move: the end
\* of print_board (main.cpp:237) or of log_event (main.cpp:232), then the win
\* check and the unlock
MoveEnd(t) ==
    /\ pc[t] \in { "move_print", "jump_log" }
    /\ EndOfMove(t, toonPos[t], TRUE)
    /\ UNCHANGED << cell, toonPos, frozen_until, steps, totalSteps, gStop,
                    sam_on_cd, cd_timers, pcMain, report, clock >>

\* ---- YosemiteSam (main.cpp:250-270) ----
\* if(!sam_on_cd.load() && chance(trng) < opt.sam_shoot_chance)
CanFire(on_cd, roll) == ~on_cd /\ roll

SamFireTest(t) ==
    /\ pc[t] = "sam_cd"
    /\ \E roll \in BOOLEAN :
         pc' = [pc EXCEPT ![t] = IF CanFire(sam_on_cd, roll) THEN "sam_lock" ELSE "top"]
    /\ UNCHANGED << cell, render_mtx, toonPos, frozen_until, steps, mtx, gameOver, winner,
                    totalSteps, gStop, sam_on_cd, cd_timers, pcMain, report,
                    clock >>

\* the target scan (main.cpp:252-259): k = next index, bestD and target so far
Dist(a, b) == Abs(a.r - b.r) + Abs(a.c - b.c)
BigD == 1000000000

\* a scan that keeps the last toon found at the least distance (`<=` for `<`)
RECURSIVE ScanLastFound(_, _, _, _)
ScanLastFound(t, k, bestD, target) ==
    IF k >= toons THEN target
    ELSE IF k # t /\ ~(now < frozen_until[k]) /\ Dist(toonPos[k], toonPos[t]) <= bestD
         THEN ScanLastFound(t, k + 1, Dist(toonPos[k], toonPos[t]), k)
         ELSE ScanLastFound(t, k + 1, bestD, target)

RECURSIVE Scan(_, _, _, _)
Scan(t, k, bestD, target) ==
    IF k >= toons THEN target
    ELSE IF k # t /\ ~(now < frozen_until[k]) /\ Dist(toonPos[k], toonPos[t]) < bestD
         THEN Scan(t, k + 1, Dist(toonPos[k], toonPos[t]), k)
         ELSE Scan(t, k + 1, bestD, target)

\* board.frozen_until[target] = now() + milliseconds(opt.sam_freeze_ms)
FreezeExpiry(at) == at + sam_freeze_ms

\* a cooldown thread that does not sleep
CooldownWakeNow(at) == at

\* sleep_for(milliseconds(opt.sam_cooldown_ms)) of the detached thread
CooldownWake(at) == at + sam_cooldown_ms

\* whether main.cpp:268 starts the cooldown, given the scan's target
StartsCooldown(target) == TRUE

\* the end of the shot section: the unlock (main.cpp:267) and
\* sam_on_cd.store(true); std::thread([&]{...}).detach(); (main.cpp:268)
EndOfShot(t, target) ==
    /\ IF StartsCooldown(target)
       THEN /\ sam_on_cd' = TRUE
            /\ cd_timers' = cd_timers \cup { CooldownWake(now) }
       ELSE UNCHANGED << sam_on_cd, cd_timers >>
    /\ mtx' = Unlock(mtx, t)
    /\ render_mtx' = Unlock(render_mtx, t)
    /\ pc' = [pc EXCEPT ![t] = "top"]

\* the shot critical section (main.cpp:253-266): the scan and the freeze.  A
\* shot is followed by print_board (main.cpp:264), made with board.mtx held;
\* with no target the section ends at once.
SamCS(t) ==
    /\ pc[t] = "sam_cs"
    /\ LET target == Scan(t, 0, BigD, -1)
       IN  IF target # -1
           THEN /\ frozen_until' = [frozen_until EXCEPT ![target] = FreezeExpiry(now)]
                /\ pc' = [pc EXCEPT ![t] = "sam_print"]
                /\ UNCHANGED << mtx, render_mtx, sam_on_cd, cd_timers >>
           ELSE /\ frozen_until' = frozen_until
                /\ EndOfShot(t, target)
    /\ UNCHANGED << cell, toonPos, steps, gameOver, winner, totalSteps, gStop,
                    pcMain, report, clock >>

\* the rest of the shot section after log_event (main.cpp:265) has returned
SamEnd(t) ==
    /\ pc[t] = "sam_log"
    /\ \E target \in Toons \ {t} : EndOfShot(t, target)
    /\ UNCHANGED << cell, toonPos, frozen_until, steps, gameOver, winner,
                    totalSteps, gStop, pcMain, report, clock >>

\* the detached thread's sam_on_cd.store(false), once its sleep is over; the
\* thread ends with the process when main returns
CooldownExpire ==
    /\ pcMain # "exit"
    /\ \E w \in cd_timers :
         /\ now >= w
         /\ cd_timers' = cd_timers \ {w}
    /\ sam_on_cd' = FALSE
    /\ UNCHANGED pc
    /\ UNCHANGED << cell, render_mtx, toonPos, frozen_until, steps, mtx, gameOver, winner,
                    totalSteps, gStop, pcMain, report, clock >>

\* ---- RoadRunner (main.cpp:273-288) ----
\* Pos step2 = ... (main.cpp:277-279), d = pick_step(trng)
BurstStep(cur, d) ==
    LET dir == Pos(Sgn(flag.r, cur.r), Sgn(flag.c, cur.c))
    IN  IF Abs(dir.r) + Abs(dir.c) # 0
        THEN Pos(IF dir.r # 0 THEN dir.r ELSE 0, IF dir.r = 0 THEN dir.c ELSE 0)
        ELSE d

\* the burst critical section (main.cpp:275-285).  A committed bonus step is
\* followed by print_board (main.cpp:285), made with board.mtx held; a failed
\* one ends the section.  There is no win check in this section.
BurstCS(t) ==
    /\ pc[t] = "burst_cs"
    /\ \E d \in pick_step :
         LET nxt == Add(toonPos[t], BurstStep(toonPos[t], d))
         IN  IF try_move(t, nxt)
             THEN /\ toonPos' = [toonPos EXCEPT ![t] = nxt]
                  /\ steps' = [steps EXCEPT ![t] = Committed(@)]
                  /\ totalSteps' = Committed(totalSteps)
                  /\ pc' = [pc EXCEPT ![t] = "burst_print"]
                  /\ mtx' = mtx
             ELSE /\ UNCHANGED << toonPos, steps, totalSteps >>
                  /\ pc' = [pc EXCEPT ![t] = "top"]
                  /\ mtx' = Unlock(mtx, t)
    /\ UNCHANGED << cell, render_mtx, frozen_until, gameOver, winner, gStop,
                    sam_on_cd, cd_timers, pcMain, report, clock >>

\* the end of print_board (main.cpp:285) and the unlock (main.cpp:287)
BurstEnd(t) ==
    /\ pc[t] = "burst_print"
    /\ mtx' = Unlock(mtx, t)
    /\ pc' = [pc EXCEPT ![t] = "top"]
    /\ UNCHANGED << cell, render_mtx, toonPos, frozen_until, steps, gameOver,
                    winner, totalSteps, gStop, sam_on_cd, cd_timers, pcMain,
                    report, clock >>

\* one worker thread
Worker(t) ==
    \/ LoopTest(t)
    \/ FreezeGate(t)
    \/ Lock(t, "move", "move_cs")
    \/ MoveCS(t)
    \/ (t = COYOTE /\ LogEvent(t, "jump_print", "jump_log"))
    \/ MoveEnd(t)
    \/ (t = YOSEMITESAM /\ SamFireTest(t))
    \/ (t = YOSEMITESAM /\ Lock(t, "sam_lock", "sam_cs"))
    \/ (t = YOSEMITESAM /\ SamCS(t))
    \/ (t = YOSEMITESAM /\ LogEvent(t, "sam_print", "sam_log"))
    \/ (t = YOSEMITESAM /\ SamEnd(t))
    \/ (t = ROADRUNNER /\ Lock(t, "burst", "burst_cs"))
    \/ (t = ROADRUNNER /\ BurstCS(t))
    \/ (t = ROADRUNNER /\ BurstEnd(t))

\* ---- the supervisor (main.cpp:298-309) ----
\* what main prints after the final board (main.cpp:304-308)
FinalReport(w) == IF w >= 0 THEN "summary" ELSE "board"

\* while(!gameOver.load() && !gStop.load()) sleep_for(5ms);
\* for(auto &th : workers) th.join();  (main.cpp:298-299)
MainJoin ==
    /\ pcMain = "wait"
    /\ gameOver \/ gStop
    /\ \A t \in Toons : pc[t] = "done"
    /\ pcMain' = "final"
    /\ UNCHANGED pc
    /\ UNCHANGED << cell, render_mtx, toonPos, frozen_until, steps, mtx, gameOver,
                    winner, totalSteps, gStop, sam_on_cd, cd_timers, report,
                    clock >>

\* the final board and the summary are printed (main.cpp:302-308); return
MainReport ==
    /\ pcMain = "final"
    /\ report' = FinalReport(winner)
    /\ pcMain' = "exit"
    /\ UNCHANGED pc
    /\ UNCHANGED << cell, render_mtx, toonPos, frozen_until, steps, mtx, gameOver,
                    winner, totalSteps, gStop, sam_on_cd, cd_timers, clock >>

\* ---- console output ----
\* worker t is inside print_board (main.cpp:231, 237, 264, 285) or inside
\* log_event (main.cpp:232, 265)
Printing(t) ==
    pc[t] \in { "move_print", "jump_print", "jump_log", "sam_print", "sam_log",
                "burst_print" }

\* main is printing the final board and the summary (main.cpp:302-308)
MainPrinting == pcMain = "final"

\* ---- environment ----
\* on_sigint (main.cpp:40)
Sigint ==
    /\ pcMain # "exit"
    /\ ~gStop
    /\ gStop' = TRUE
    /\ UNCHANGED pc
    /\ UNCHANGED << cell, render_mtx, toonPos, frozen_until, steps, mtx, gameOver, winner,
                    totalSteps, sam_on_cd, cd_timers, pcMain, report, clock >>

\* the steady clock advances
Tick ==
    /\ pcMain # "exit"
    /\ clock < MaxTime
    /\ clock' = clock + 1
    /\ UNCHANGED pc
    /\ UNCHANGED << cell, render_mtx, toonPos, frozen_until, steps, mtx, gameOver, winner,
                    totalSteps, gStop, sam_on_cd, cd_timers, pcMain, report >>

Next ==
    \/ \E t \in Toons : Worker(t)
    \/ CooldownExpire
    \/ MainJoin
    \/ MainReport
    \/ Sigint
    \/ Tick

Spec == Init /\ [][Next]_vars

\* ---- waiting for a mutex ----
\* a worker asks for board.mtx or, after print_board, for render_mtx: its
\* next step is the acquisition
AsksMutex(t) ==
    pc[t] \in { "move", "sam_lock", "burst", "jump_print", "sam_print" }

\* a worker is blocked in mutex::lock: the mutex it asks for is held
BlockedOnMutex(t) ==
    \/ pc[t] \in { "move", "sam_lock", "burst" } /\ mtx # NoOne
    \/ pc[t] \in { "jump_print", "sam_print" } /\ render_mtx # NoOne

\* ---- scheduling ----
\* a worker's acquisitions of board.mtx
LockStep(t) ==
    \/ Lock(t, "move", "move_cs")
    \/ (t = YOSEMITESAM /\ Lock(t, "sam_lock", "sam_cs"))
    \/ (t = ROADRUNNER /\ Lock(t, "burst", "burst_cs"))

\* Every thread that can run does run: a worker or main takes its next step
\* when that step stays possible (its sleeps are bounded), and a worker
\* blocked in mutex::lock gets the mutex if it is free again and again (each
\* holder releases it and sleeps at least its pacing delay before it asks
\* again, main.cpp:291).  Nothing is assumed of SIGINT.
Fairness ==
    /\ \A t \in Toons : WF_vars(Worker(t)) /\ SF_vars(LockStep(t))
    /\ WF_vars(MainJoin)
    /\ WF_vars(MainReport)

\* The threads under that scheduling, at one reading of the clock: no step
\* of a worker or of main waits for the clock (sleep_for is over after a
\* bounded time whatever else happens), so the clock is left where it is; a
\* toon that was shot stays in its frozen wait and the cooldown does not
\* end.
LiveNext ==
    \/ \E t \in Toons : Worker(t)
    \/ MainJoin
    \/ MainReport
    \/ Sigint

LiveSpec == Init /\ [][LiveNext]_vars /\ Fairness

(***************************************************************************)
(* The claims                                                               *)
(***************************************************************************)

\* C1: in every reachable state no two toons occupy the same cell.
C1_NoSharedCell ==
    \A a, b \in Toons : a # b => toonPos[a] # toonPos[b]

\* two toons that have both moved stand on neighbouring cells
C1_Witness ==
    \E a, b \in Toons :
        /\ a # b
        /\ steps[a] > 0 /\ steps[b] > 0
        /\ Dist(toonPos[a], toonPos[b]) = 1

\* C2: in every reachable state every toon is inside the grid, strictly left
\* of the finish column, and not on a wall cell.
C2_InsideLeftOfFinishOffWalls ==
    \A t \in Toons :
        /\ inBounds(toonPos[t].r, toonPos[t].c)
        /\ toonPos[t].c < finishCol
        /\ toonPos[t] \notin cell

\* a toon has moved into the last column left of the finish column
C2_Witness ==
    \E t \in Toons : steps[t] > 0 /\ toonPos[t].c = finishCol - 1

\* C3: the winner goes from unset (-1) to a toon's index at most once, the
\* game-over flag never goes back to false, and the winner never changes once
\* the game is over.
C3_WinnerSetOnce ==
    [][ /\ (winner # -1 => winner' = winner)
        /\ (winner' # winner => winner' \in Toons)
        /\ (gameOver => gameOver' /\ winner' = winner) ]_vars

\* the game is over and a second toon has reached the win condition as well
C3_Witness ==
    /\ gameOver
    /\ \E a \in Toons : a # winner /\ steps[a] > 0 /\ WinCond(toonPos[a])

\* C4: once the game-over flag is true, no toon's position or step count
\* changes again.
C4_NoMoveAfterGameOver ==
    [][ gameOver => toonPos' = toonPos /\ steps' = steps ]_vars

\* C5: whenever board.mtx is free and some toon is on the flag or in the
\* column before the finish column, game-over is set.
C5_WinSeenUnderTheLock ==
    (mtx = NoOne /\ \E t \in Toons : WinCond(toonPos[t])) => gameOver

\* C6: a toon whose freeze-expiry lies in the future commits no move: neither
\* its position nor its step count changes.
C6_NoMoveWhileFrozen ==
    [][ \A t \in Toons :
          now < frozen_until[t] =>
              toonPos'[t] = toonPos[t] /\ steps'[t] = steps[t] ]_vars

\* C7: a toon's step count never decreases, rises by exactly 1 with every
\* committed move (every change of its position included), and is changed by
\* nothing but that toon's own move or burst section.
C7_StepCount ==
    [][ \A t \in Toons :
          /\ steps'[t] \in { steps[t], steps[t] + 1 }
          /\ (toonPos'[t] # toonPos[t] => steps'[t] = steps[t] + 1)
          /\ (steps'[t] # steps[t] =>
                 mtx = t /\ pc[t] \in { "move_cs", "burst_cs" }) ]_vars

\* a toon has committed two moves
C7_Witness == \E t \in Toons : steps[t] = 2

\* C8: once the global step counter has reached maxSteps with no winner, no
\* worker commits a move any more.
C8_StepCapStopsTheRun ==
    [][ totalSteps >= maxSteps /\ winner = -1 =>
            toonPos' = toonPos /\ steps' = steps ]_vars

\* C9: a shot section that finds no target (every other toon frozen) changes
\* no freeze-expiry and does not start the cooldown.
C9_NoTargetNoCooldown ==
    [][ /\ pc[YOSEMITESAM] = "sam_cs"
        /\ pc'[YOSEMITESAM] # "sam_cs"
        /\ Scan(YOSEMITESAM, 0, BigD, -1) = -1
        => /\ frozen_until' = frozen_until
           /\ sam_on_cd' = sam_on_cd
           /\ cd_timers' = cd_timers ]_vars

\* C10: a freeze-expiry is modified only off cooldown and no sooner than
\* sam_cooldown_ms after every earlier shot; a fire test on cooldown ends the
\* tick and changes nothing else.
C10_NoShotDuringCooldown ==
    [][ /\ (frozen_until' # frozen_until =>
              /\ ~sam_on_cd
              /\ cd_timers = {}
              /\ \A k \in Toons :
                    frozen_until[k] # TimeMin =>
                        now >= (frozen_until[k] - sam_freeze_ms) + sam_cooldown_ms)
        /\ (pc[YOSEMITESAM] = "sam_cd" /\ pc'[YOSEMITESAM] # "sam_cd" /\ sam_on_cd =>
              /\ pc' = [pc EXCEPT ![YOSEMITESAM] = "top"]
              /\ UNCHANGED << cell, render_mtx, toonPos, frozen_until, steps, mtx, gameOver,
                              winner, totalSteps, gStop, sam_on_cd, cd_timers,
                              pcMain, report, clock >>) ]_vars

\* both other toons have been shot, the second one after the first cooldown
C10_Witness ==
    /\ frozen_until[ROADRUNNER] # TimeMin
    /\ frozen_until[COYOTE] # TimeMin
    /\ frozen_until[ROADRUNNER] # frozen_until[COYOTE]

\* C11: whenever a freeze-expiry is written, exactly one is, that of a toon
\* other than YosemiteSam that is not frozen at that moment and is nearest to
\* YosemiteSam (Manhattan distance) among the unfrozen others, the lowest
\* index winning ties; it is set to now + sam_freeze_ms.  Hence YosemiteSam's
\* own expiry and the expiry of a frozen toon are never written.
C11_NearestUnfrozenLowestIndex ==
    [][ frozen_until' # frozen_until =>
          \E k \in Toons \ {YOSEMITESAM} :
              /\ ~(now < frozen_until[k])
              /\ \A j \in Toons \ {YOSEMITESAM, k} :
                    ~(now < frozen_until[j]) =>
                        \/ Dist(toonPos[j], toonPos[YOSEMITESAM])
                              > Dist(toonPos[k], toonPos[YOSEMITESAM])
                        \/ /\ Dist(toonPos[j], toonPos[YOSEMITESAM])
                                = Dist(toonPos[k], toonPos[YOSEMITESAM])
                           /\ k < j
              /\ frozen_until' = [frozen_until EXCEPT ![k] = now + sam_freeze_ms] ]_vars

\* the RoadRunner was shot while the Coyote, unfrozen, stood as near to
\* YosemiteSam as the RoadRunner (nobody has moved)
C11_Witness ==
    /\ frozen_until[ROADRUNNER] # TimeMin
    /\ frozen_until[COYOTE] = TimeMin
    /\ \A t \in Toons : steps[t] = 0
    /\ Dist(toonPos[ROADRUNNER], toonPos[YOSEMITESAM])
          = Dist(toonPos[COYOTE], toonPos[YOSEMITESAM])

\* C12: a toon's position changes by more than one cell only when the Coyote
\* jumps: the new position is two cells from the old one in one of the four
\* directions, the cell in between failed the validation of a move (outside
\* the grid, at or past the finish column, a wall, or occupied), the new cell
\* passes it, and the Coyote's step count and the global step counter rise by
\* exactly 1 (the jump excludes the normal move of the same tick).
C12_JumpOverBlockedCell ==
    [][ \A t \in Toons :
          Dist(toonPos[t], toonPos'[t]) > 1 =>
              /\ t = COYOTE
              /\ \E d \in pick_step \ { Pos(0, 0) } :
                    /\ toonPos'[t] = Add(Add(toonPos[t], d), d)
                    /\ ~try_move(t, Add(toonPos[t], d))
                    /\ try_move(t, toonPos'[t])
              /\ steps'[t] = steps[t] + 1
              /\ totalSteps' = totalSteps + 1 ]_vars

\* the Coyote, started at (1,3) above YosemiteSam, has hopped over it to
\* (3,3) in its one committed move
C12_Witness ==
    /\ steps[COYOTE] = 1
    /\ toonPos[COYOTE] = Pos(3, 3)
    /\ toonPos[YOSEMITESAM] = Pos(2, 3)
    /\ steps[YOSEMITESAM] = 0

\* C13: main is past its join only when every worker thread has ended; and
\* under fair scheduling, once game-over or the stop flag is set, every
\* worker thread ends, wherever it was (frozen wait, pacing sleep, waiting for
\* or holding a mutex), and main then prints its final report.
C13_WorkersExitThenReport ==
    /\ [](pcMain # "wait" => \A t \in Toons : pc[t] = "done")
    /\ ((gameOver \/ gStop) ~> (\A t \in Toons : pc[t] = "done"))
    /\ ((gameOver \/ gStop) ~> (pcMain = "exit"))

\* the stop flag is set while a frozen toon is in its wait, another worker
\* waits for board.mtx and a third is inside log_event with both mutexes
C13_Witness ==
    /\ gStop
    /\ \E a, b \in Toons :
          /\ pc[a] = "gate" /\ now < frozen_until[a]
          /\ pc[b] = "move"
          /\ pc[YOSEMITESAM] = "sam_log"

\* C14: in every reachable state at most one thread, worker or supervisor, is
\* inside an output operation (print_board or log_event).
C14_OutputSerialized ==
    Cardinality({ t \in Toons : Printing(t) }) + (IF MainPrinting THEN 1 ELSE 0) <= 1

\* YosemiteSam is inside log_event after a shot while the RoadRunner, which
\* has a bonus step and its frame to print, waits for board.mtx
C14_Witness ==
    /\ pc[YOSEMITESAM] = "sam_log"
    /\ render_mtx = YOSEMITESAM
    /\ pc[ROADRUNNER] = "burst"

\* C15: a step that changes toon t's position or step count is a step of t's
\* own thread, made while t holds board.mtx; a step that changes a
\* freeze-expiry is a step of a thread that holds board.mtx.
C15_WritesUnderTheLock ==
    [][ /\ \A t \in Toons :
              (toonPos'[t] # toonPos[t] \/ steps'[t] # steps[t]) =>
                  mtx = t /\ pc'[t] # pc[t]
        /\ (frozen_until' # frozen_until =>
              \E u \in Toons : mtx = u /\ pc'[u] # pc[u]) ]_vars

\* the RoadRunner has written its own position and step count, and
\* YosemiteSam has written the RoadRunner's freeze-expiry
C15_Witness ==
    /\ steps[ROADRUNNER] > 0
    /\ \A s \in Setups : toonPos[ROADRUNNER] # s.pos[ROADRUNNER + 1]
    /\ frozen_until[ROADRUNNER] # TimeMin
    /\ mtx = COYOTE

C18_FailedAttemptChangesNothing ==
    [][ \A t \in Toons :
          (pc[t] \in { "move_cs", "burst_cs" } /\ pc'[t] # pc[t]) =>
              LET dest == toonPos'[t]
                  valid == /\ inBounds(dest.r, dest.c)
                           /\ dest.c < finishCol
                           /\ dest \notin cell
                           /\ \A k \in Toons \ {t} : toonPos[k] # dest
                  won == pc[t] = "move_cs" /\ ~gameOver /\ WinCond(toonPos[t])
              IN  \/ /\ valid
                     /\ steps'[t] = steps[t] + 1
                     /\ totalSteps' = totalSteps + 1
                  \/ /\ toonPos' = toonPos
                     /\ steps' = steps
                     /\ totalSteps' = totalSteps
                     /\ frozen_until' = frozen_until
                     /\ winner' = (IF won THEN t ELSE winner)
                     /\ gameOver' = (gameOver \/ won) ]_vars

\* YosemiteSam, started at (2,3) between the two others, is past a move
\* section in which it did not move: its attempt failed
C18_Witness ==
    /\ pc[YOSEMITESAM] = "sam_cd"
    /\ steps[YOSEMITESAM] = 0
    /\ toonPos[YOSEMITESAM] = Pos(2, 3)
    /\ totalSteps > 0

\* C19: whenever the game-over flag is true the winner is a toon's index and
\* that toon stands on the flag or in the column just left of the finish
\* column; once a winner is recorded its position never changes.
C19_WinnerStandsOnWinningCell ==
    [][ /\ (gameOver' =>
              /\ winner' \in 0 .. toons - 1
              /\ \/ toonPos'[winner'] = Pos(rows \div 2, cols - 2)
                 \/ toonPos'[winner'].c = cols - 2)
        /\ (winner # -1 => toonPos'[winner] = toonPos[winner]) ]_vars

\* the game was won off the flag, in the column left of the finish column,
\* the winner's thread has ended and another toon has moved as well
C19_Witness ==
    /\ gameOver
    /\ winner \in Toons
    /\ toonPos[winner] # flag
    /\ pc[winner] = "done"
    /\ \E a \in Toons : a # winner /\ steps[a] > 0

\* C20: in every reachable state a proposed stay, the direction (0,0), is not
\* blocked and passes the validation of a move for every toon, so it is
\* committed like any other move; and the global step counter equals the sum
\* of the toons' step counts (it counts committed moves, stays included, not
\* changes of position).
C20_StayIsACommittedMove ==
    /\ \A t \in Toons :
          /\ ~blocked(t, Add(toonPos[t], Pos(0, 0)))
          /\ try_move(t, Add(toonPos[t], Pos(0, 0)))
    /\ totalSteps = steps[ROADRUNNER] + steps[COYOTE] + steps[YOSEMITESAM]

\* the RoadRunner has committed a stay: nobody has left its start cell, the
\* RoadRunner's step count and the global counter are 1, and the RoadRunner
\* is in the bonus step its stay made it eligible for
C20_Witness ==
    /\ \E s \in Setups : \A t \in Toons : toonPos[t] = s.pos[t + 1]
    /\ steps[ROADRUNNER] = 1
    /\ totalSteps = 1
    /\ pc[ROADRUNNER] = "burst_cs"
====
